---------------------------- MODULE Spec2Model ----------------------------
(***************************************************************************)
(* A model of fcb2b_client.py: the request signer (enc, canonical_query,   *)
(* sign_get), the catalog fetcher (fetch_service_profiles) and the main    *)
(* loop with call_service.                                                 *)
(*                                                                         *)
(* A Python str is a sequence of Unicode code points; bytes are a sequence *)
(* of numbers 0..255.  A value that may be None is a sequence of length 0  *)
(* (None) or 1 (the value).                                                *)
(***************************************************************************)
EXTENDS Integers, Sequences, FiniteSets, TLC

VARIABLES
  pure,     \* the last call of enc or canonical_query made on its own: function, argument, value returned
  signer,   \* sign_get: each caller's call, the frames that hold the calls' locals
  fetcher,  \* fetch_service_profiles: the answers the server may give, the frame of the call
  prog      \* main with build_params_for_service and call_service: position, locals, effects

vars == <<pure, signer, fetcher, prog>>

None == "None"

(***************************************************************************)
(* String literals.  Str turns a TLA+ string of printable ASCII characters *)
(* (without double quote, backslash and backtick) into the sequence of its *)
(* code points.                                                            *)
(***************************************************************************)
\* the printable ASCII characters from code point 32, 35, 93 and 97 on; the double
\* quote (34), the backslash (92) and the backtick (96) are written as numbers
Printable ==
  << <<32, " !">>,
     <<35, "#$%&'()*+,-./0123456789:;<=>?@ABCDEFGHIJKLMNOPQRSTUVWXYZ[">>,
     <<93, "]^_">>,
     <<97, "abcdefghijklmnopqrstuvwxyz{|}~">> >>

Ord(c) ==
  LET seg == CHOOSE g \in 1..Len(Printable) :
               \E i \in 1..Len(Printable[g][2]) : SubSeq(Printable[g][2], i, i) = c
      pos == CHOOSE i \in 1..Len(Printable[seg][2]) : SubSeq(Printable[seg][2], i, i) = c
  IN Printable[seg][1] + pos - 1

Str(lit) == [i \in 1..Len(lit) |-> Ord(SubSeq(lit, i, i))]

\* "".join(parts) of a sequence of strings
RECURSIVE Concat(_)
Concat(parts) ==
  IF Len(parts) = 0 THEN <<>>
  ELSE IF Len(parts) = 1 THEN parts[1]
  ELSE Concat(SubSeq(parts, 1, Len(parts) \div 2)) \o Concat(SubSeq(parts, (Len(parts) \div 2) + 1, Len(parts)))

\* sep.join(parts)
Join(sep, parts) ==
  Concat([i \in 1..(2 * Len(parts) - 1) |-> IF i % 2 = 1 THEN parts[(i + 1) \div 2] ELSE sep])

\* str.find(ch, start): the first index i >= start with s[i] = ch, or 0 (indices from 1)
Find(s, ch, start) ==
  IF \E i \in start..Len(s) : s[i] = ch
  THEN CHOOSE i \in start..Len(s) : s[i] = ch /\ \A j \in start..(i - 1) : s[j] # ch
  ELSE 0

\* str.rfind(ch): the last index i with s[i] = ch, or 0
RFind(s, ch) ==
  IF \E i \in 1..Len(s) : s[i] = ch
  THEN CHOOSE i \in 1..Len(s) : s[i] = ch /\ \A j \in (i + 1)..Len(s) : s[j] # ch
  ELSE 0

\* s1 < s2 of two str: lexicographic by code point
StrLess(s1, s2) ==
  \E i \in 1..(Len(s2)) :
    /\ \A j \in 1..(i - 1) : j <= Len(s1) /\ s1[j] = s2[j]
    /\ Len(s1) >= i - 1
    /\ (Len(s1) = i - 1 \/ s1[i] < s2[i])

IsUpper(cp) == cp >= 65 /\ cp <= 90
IsLower(cp) == cp >= 97 /\ cp <= 122
IsDigit(cp) == cp >= 48 /\ cp <= 57

\* str.lower(), on the code points of the model's alphabet: only A-Z have a lower case
Lower(s) == [i \in 1..Len(s) |-> IF IsUpper(s[i]) THEN s[i] + 32 ELSE s[i]]

\* the code points str.isspace() holds of
Whitespace ==
  (9..13) \cup (28..32) \cup {133, 160, 5760} \cup (8192..8202) \cup {8232, 8233, 8239, 8287, 12288}

\* str.strip()
Strip(s) ==
  IF \A i \in 1..Len(s) : s[i] \in Whitespace THEN <<>>
  ELSE LET first == CHOOSE i \in 1..Len(s) : s[i] \notin Whitespace /\ \A j \in 1..(i - 1) : s[j] \in Whitespace
           last == CHOOSE i \in 1..Len(s) : s[i] \notin Whitespace /\ \A j \in (i + 1)..Len(s) : s[j] \in Whitespace
       IN SubSeq(s, first, last)

\* str.encode("utf-8") of one code point (no surrogate is in the model's alphabet)
Utf8(cp) ==
  IF cp < 128 THEN <<cp>>
  ELSE IF cp < 2048 THEN <<192 + (cp \div 64), 128 + (cp % 64)>>
  ELSE IF cp < 65536 THEN <<224 + (cp \div 4096), 128 + ((cp \div 64) % 64), 128 + (cp % 64)>>
  ELSE <<240 + (cp \div 262144), 128 + ((cp \div 4096) % 64), 128 + ((cp \div 64) % 64), 128 + (cp % 64)>>

\* str.encode("utf-8")
Encode(s) == Concat([i \in 1..Len(s) |-> Utf8(s[i])])

(***************************************************************************)
(* enc and canonical_query                                                 *)
(***************************************************************************)

\* urllib.parse.quote's always-safe bytes, plus safe='-_.~'
QuoteSafeWithSlash(b) == IsUpper(b) \/ IsLower(b) \/ IsDigit(b) \/ b \in {45, 95, 46, 126, 47}
QuoteSafe(b) == IsUpper(b) \/ IsLower(b) \/ IsDigit(b) \/ b \in {45, 95, 46, 126}

HexDigit(n) == IF n < 10 THEN 48 + n ELSE 55 + n

\* quote's "%{:02X}" of one byte
QuoteByte(b) == IF QuoteSafe(b) THEN <<b>> ELSE <<37, HexDigit(b \div 16), HexDigit(b % 16)>>

\* ''.join([quoter(char) for char in bs])
QuoteFromBytes(bs) == Concat([i \in 1..Len(bs) |-> QuoteByte(bs[i])])

enc(v) == QuoteFromBytes(Encode(v))

\* the sort key of line 74, kv[0], compared as Python compares two str
KeyLessIgnoringCase(kv1, kv2) == StrLess(Lower(kv1[1]), Lower(kv2[1]))
KeyLess(kv1, kv2) == StrLess(kv1[1], kv2[1])

\* sorted(items, key=...): a stable sort; the item goes after every item not greater than it
RECURSIVE Insert(_, _)
Insert(kv, sortedItems) ==
  IF Len(sortedItems) = 0 THEN <<kv>>
  ELSE IF KeyLess(kv, Head(sortedItems)) THEN <<kv>> \o sortedItems
  ELSE <<Head(sortedItems)>> \o Insert(kv, Tail(sortedItems))

RECURSIVE Sorted(_)
Sorted(items) ==
  IF Len(items) = 0 THEN <<>>
  ELSE Insert(items[Len(items)], Sorted(SubSeq(items, 1, Len(items) - 1)))

Pair(kv) == enc(kv[1]) \o <<61>> \o enc(kv[2])

canonical_query(params) ==
  LET items == Sorted(params)
  IN Join(<<38>>, [i \in 1..Len(items) |-> Pair(items[i])])

(***************************************************************************)
(* hmac.new(key, msg, hashlib.sha256).digest(): HMAC (RFC 2104) over       *)
(* SHA-256 (FIPS 180-4).  A 32-bit word is <<hi, lo>>, two 16-bit halves,  *)
(* so that no intermediate value leaves TLC's integer range.               *)
(***************************************************************************)
XorNibble ==
  << <<0, 1, 2, 3, 4, 5, 6, 7, 8, 9, 10, 11, 12, 13, 14, 15>>,
     <<1, 0, 3, 2, 5, 4, 7, 6, 9, 8, 11, 10, 13, 12, 15, 14>>,
     <<2, 3, 0, 1, 6, 7, 4, 5, 10, 11, 8, 9, 14, 15, 12, 13>>,
     <<3, 2, 1, 0, 7, 6, 5, 4, 11, 10, 9, 8, 15, 14, 13, 12>>,
     <<4, 5, 6, 7, 0, 1, 2, 3, 12, 13, 14, 15, 8, 9, 10, 11>>,
     <<5, 4, 7, 6, 1, 0, 3, 2, 13, 12, 15, 14, 9, 8, 11, 10>>,
     <<6, 7, 4, 5, 2, 3, 0, 1, 14, 15, 12, 13, 10, 11, 8, 9>>,
     <<7, 6, 5, 4, 3, 2, 1, 0, 15, 14, 13, 12, 11, 10, 9, 8>>,
     <<8, 9, 10, 11, 12, 13, 14, 15, 0, 1, 2, 3, 4, 5, 6, 7>>,
     <<9, 8, 11, 10, 13, 12, 15, 14, 1, 0, 3, 2, 5, 4, 7, 6>>,
     <<10, 11, 8, 9, 14, 15, 12, 13, 2, 3, 0, 1, 6, 7, 4, 5>>,
     <<11, 10, 9, 8, 15, 14, 13, 12, 3, 2, 1, 0, 7, 6, 5, 4>>,
     <<12, 13, 14, 15, 8, 9, 10, 11, 4, 5, 6, 7, 0, 1, 2, 3>>,
     <<13, 12, 15, 14, 9, 8, 11, 10, 5, 4, 7, 6, 1, 0, 3, 2>>,
     <<14, 15, 12, 13, 10, 11, 8, 9, 6, 7, 4, 5, 2, 3, 0, 1>>,
     <<15, 14, 13, 12, 11, 10, 9, 8, 7, 6, 5, 4, 3, 2, 1, 0>> >>
AndNibble ==
  << <<0, 0, 0, 0, 0, 0, 0, 0, 0, 0, 0, 0, 0, 0, 0, 0>>,
     <<0, 1, 0, 1, 0, 1, 0, 1, 0, 1, 0, 1, 0, 1, 0, 1>>,
     <<0, 0, 2, 2, 0, 0, 2, 2, 0, 0, 2, 2, 0, 0, 2, 2>>,
     <<0, 1, 2, 3, 0, 1, 2, 3, 0, 1, 2, 3, 0, 1, 2, 3>>,
     <<0, 0, 0, 0, 4, 4, 4, 4, 0, 0, 0, 0, 4, 4, 4, 4>>,
     <<0, 1, 0, 1, 4, 5, 4, 5, 0, 1, 0, 1, 4, 5, 4, 5>>,
     <<0, 0, 2, 2, 4, 4, 6, 6, 0, 0, 2, 2, 4, 4, 6, 6>>,
     <<0, 1, 2, 3, 4, 5, 6, 7, 0, 1, 2, 3, 4, 5, 6, 7>>,
     <<0, 0, 0, 0, 0, 0, 0, 0, 8, 8, 8, 8, 8, 8, 8, 8>>,
     <<0, 1, 0, 1, 0, 1, 0, 1, 8, 9, 8, 9, 8, 9, 8, 9>>,
     <<0, 0, 2, 2, 0, 0, 2, 2, 8, 8, 10, 10, 8, 8, 10, 10>>,
     <<0, 1, 2, 3, 0, 1, 2, 3, 8, 9, 10, 11, 8, 9, 10, 11>>,
     <<0, 0, 0, 0, 4, 4, 4, 4, 8, 8, 8, 8, 12, 12, 12, 12>>,
     <<0, 1, 0, 1, 4, 5, 4, 5, 8, 9, 8, 9, 12, 13, 12, 13>>,
     <<0, 0, 2, 2, 4, 4, 6, 6, 8, 8, 10, 10, 12, 12, 14, 14>>,
     <<0, 1, 2, 3, 4, 5, 6, 7, 8, 9, 10, 11, 12, 13, 14, 15>> >>

Nib(tab, a, b) == tab[a + 1][b + 1]
\* bitwise operation on 16-bit values, nibble by nibble
Bits16(tab, a, b) ==
  Nib(tab, a % 16, b % 16) + 16 * Nib(tab, (a \div 16) % 16, (b \div 16) % 16)
  + 256 * Nib(tab, (a \div 256) % 16, (b \div 256) % 16) + 4096 * Nib(tab, a \div 4096, b \div 4096)

\* a 32-bit word is <<hi, lo>>, two 16-bit halves
WXor(u, v) == <<Bits16(XorNibble, u[1], v[1]), Bits16(XorNibble, u[2], v[2])>>
WAnd(u, v) == <<Bits16(AndNibble, u[1], v[1]), Bits16(AndNibble, u[2], v[2])>>
WNot(x) == <<65535 - x[1], 65535 - x[2]>>
WAdd(u, v) == LET lo == u[2] + v[2]
                  hi == u[1] + v[1] + (lo \div 65536)
              IN <<hi % 65536, lo % 65536>>
\* rotate right by n, 0 < n < 16
RotrS(x, n) == LET p == 2^n q == 2^(16 - n)
               IN <<(x[1] \div p) + (x[2] % p) * q, (x[2] \div p) + (x[1] % p) * q>>
Rotr(x, n) == IF n = 16 THEN <<x[2], x[1]>>
              ELSE IF n < 16 THEN RotrS(x, n) ELSE RotrS(<<x[2], x[1]>>, n - 16)
Shr(x, n) == LET p == 2^n q == 2^(16 - n)
             IN IF n < 16 THEN <<x[1] \div p, (x[2] \div p) + (x[1] % p) * q>>
                ELSE <<0, x[1] \div 2^(n - 16)>>

SHA256_K ==
  << <<17034, 12184>>, <<28983, 17553>>, <<46528, 64463>>, <<59829, 56229>>,
     <<14678, 49755>>, <<23025, 4593>>, <<37439, 33444>>, <<43804, 24277>>,
     <<55303, 43672>>, <<4739, 23297>>, <<9265, 34238>>, <<21772, 32195>>,
     <<29374, 23924>>, <<32990, 45566>>, <<39900, 1703>>, <<49563, 61812>>,
     <<58523, 27073>>, <<61374, 18310>>, <<4033, 40390>>, <<9228, 41420>>,
     <<11753, 11375>>, <<19060, 33962>>, <<23728, 43484>>, <<30457, 35034>>,
     <<38974, 20818>>, <<43057, 50797>>, <<45059, 10184>>, <<48985, 32711>>,
     <<50912, 3059>>, <<54695, 37191>>, <<1738, 25425>>, <<5161, 10599>>,
     <<10167, 2693>>, <<11803, 8504>>, <<19756, 28156>>, <<21304, 3347>>,
     <<25866, 29524>>, <<30314, 2747>>, <<33218, 51502>>, <<37490, 11397>>,
     <<41663, 59553>>, <<43034, 26187>>, <<49739, 35696>>, <<51052, 20899>>,
     <<53650, 59417>>, <<54937, 1572>>, <<62478, 13701>>, <<4202, 41072>>,
     <<6564, 49430>>, <<7735, 27656>>, <<10056, 30540>>, <<13488, 48309>>,
     <<14620, 3251>>, <<20184, 43594>>, <<23452, 51791>>, <<26670, 28659>>,
     <<29839, 33518>>, <<30885, 25455>>, <<33992, 30740>>, <<36039, 520>>,
     <<37054, 65530>>, <<42064, 27883>>, <<48889, 41975>>, <<50801, 30962>> >>

SHA256_H0 ==
  << <<27145, 58983>>, <<47975, 44677>>, <<15470, 62322>>, <<42319, 62778>>,
     <<20750, 21119>>, <<39685, 26764>>, <<8067, 55723>>, <<23520, 52505>> >>

Ch(x, y, z) == WXor(WAnd(x, y), WAnd(WNot(x), z))
Maj(x, y, z) == WXor(WXor(WAnd(x, y), WAnd(x, z)), WAnd(y, z))
BigSigma0(x) == WXor(WXor(Rotr(x, 2), Rotr(x, 13)), Rotr(x, 22))
BigSigma1(x) == WXor(WXor(Rotr(x, 6), Rotr(x, 11)), Rotr(x, 25))
SmallSigma0(x) == WXor(WXor(Rotr(x, 7), Rotr(x, 18)), Shr(x, 3))
SmallSigma1(x) == WXor(WXor(Rotr(x, 17), Rotr(x, 19)), Shr(x, 10))

\* W[t] for t = Len(w) + 1
NextWord(w) ==
  LET t == Len(w) + 1
  IN WAdd(WAdd(SmallSigma1(w[t - 2]), w[t - 7]), WAdd(SmallSigma0(w[t - 15]), w[t - 16]))

\* the working variables <<a, .., h>> after a round with schedule word wt and
\* round constant kt
Round(s, wt, kt) ==
  LET t1 == WAdd(WAdd(WAdd(s[8], BigSigma1(s[5])), WAdd(Ch(s[5], s[6], s[7]), kt)), wt)
      t2 == WAdd(BigSigma0(s[1]), Maj(s[1], s[2], s[3]))
  IN <<WAdd(t1, t2), s[1], s[2], s[3], WAdd(s[4], t1), s[5], s[6], s[7]>>

\* r is <<t, working variables after round t, schedule words W[1..max(t, 16)]>>
Step(r) ==
  LET t == r[1] + 1
      w == IF t <= 16 THEN r[3] ELSE Append(r[3], NextWord(r[3]))
  IN <<t, Round(r[2], w[t], SHA256_K[t]), w>>

RECURSIVE RoundsTo(_, _)
RoundsTo(r, last) == IF r[1] = last THEN r ELSE RoundsTo(Step(r), last)

\* the 64 rounds, in runs of eight: a run returns before the next starts, which
\* keeps TLC's evaluation stack shallow
Rounds(h, w) ==
  RoundsTo(RoundsTo(RoundsTo(RoundsTo(RoundsTo(RoundsTo(RoundsTo(RoundsTo(
    <<0, h, w>>, 8), 16), 24), 32), 40), 48), 56), 64)[2]

BlockWords(b) == [i \in 1..16 |-> <<b[4 * i - 3] * 256 + b[4 * i - 2], b[4 * i - 1] * 256 + b[4 * i]>>]
\* the chaining value h plus the working variables s, word by word
AddWords(h, s) ==
  <<WAdd(h[1], s[1]), WAdd(h[2], s[2]), WAdd(h[3], s[3]), WAdd(h[4], s[4]),
    WAdd(h[5], s[5]), WAdd(h[6], s[6]), WAdd(h[7], s[7]), WAdd(h[8], s[8])>>
Compress(h, b) == AddWords(h, Rounds(h, BlockWords(b)))

Zeros(n) == [i \in 1..n |-> 0]
\* message length in bits as 8 big-endian bytes (messages shorter than 2^24 bytes)
LenBytes(n) == <<0, 0, 0, 0, 0, ((n * 8) \div 65536) % 256, ((n * 8) \div 256) % 256, (n * 8) % 256>>
Pad(m) == m \o <<128>> \o Zeros((119 - (Len(m) % 64)) % 64) \o LenBytes(Len(m))

\* st is <<chaining value, message bytes not yet compressed>>
RECURSIVE Blocks(_)
Blocks(st) ==
  IF Len(st[2]) = 0 THEN st[1]
  ELSE Blocks(<<Compress(st[1], SubSeq(st[2], 1, 64)), SubSeq(st[2], 65, Len(st[2]))>>)

WordBytes(x) == <<x[1] \div 256, x[1] % 256, x[2] \div 256, x[2] % 256>>
\* the digest: the eight words of the last chaining value, big-endian
Digest(h) ==
  WordBytes(h[1]) \o WordBytes(h[2]) \o WordBytes(h[3]) \o WordBytes(h[4]) \o
  WordBytes(h[5]) \o WordBytes(h[6]) \o WordBytes(h[7]) \o WordBytes(h[8])
Sha256(m) == Digest(Blocks(<<SHA256_H0, Pad(m)>>))

\* the key of HMAC, hashed if longer than a block and padded with zeros to a block
BlockKey(key) == IF Len(key) > 64 THEN Sha256(key) ELSE key
PadKey(k0) == k0 \o Zeros(64 - Len(k0))
XorPad(k, c) == [i \in 1..64 |-> Bits16(XorNibble, k[i], c)]
HmacWithKey(k, msg) == Sha256(XorPad(k, 92) \o Sha256(XorPad(k, 54) \o msg))
HmacSha256(key, msg) == HmacWithKey(PadKey(BlockKey(key)), msg)

(***************************************************************************)
(* base64.b64encode(digest).decode()                                       *)
(***************************************************************************)
B64Char(n) ==
  IF n < 26 THEN 65 + n ELSE IF n < 52 THEN 71 + n ELSE IF n < 62 THEN n - 4
  ELSE IF n = 62 THEN 43 ELSE 47

RECURSIVE B64Encode(_)
B64Encode(bs) ==
  IF Len(bs) = 0 THEN <<>>
  ELSE IF Len(bs) = 1
  THEN <<B64Char(bs[1] \div 4), B64Char((bs[1] % 4) * 16), 61, 61>>
  ELSE IF Len(bs) = 2
  THEN <<B64Char(bs[1] \div 4), B64Char((bs[1] % 4) * 16 + (bs[2] \div 16)),
         B64Char((bs[2] % 16) * 4), 61>>
  ELSE <<B64Char(bs[1] \div 4), B64Char((bs[1] % 4) * 16 + (bs[2] \div 16)),
         B64Char((bs[2] % 16) * 4 + (bs[3] \div 64)), B64Char(bs[3] % 64)>>
       \o B64Encode(SubSeq(bs, 4, Len(bs)))

(***************************************************************************)
(* urllib.parse.urlparse (CPython 3.11).  The URLs of the model are ASCII  *)
(* and none has both '[' and ']', so that _checknetloc and                 *)
(* _check_bracketed_host have nothing to reject.                           *)
(***************************************************************************)
SchemeChars == {cp \in 43..122 : IsUpper(cp) \/ IsLower(cp) \/ IsDigit(cp) \/ cp \in {43, 45, 46}}

UsesParams ==
  {<<>>, Str("ftp"), Str("hdl"), Str("prospero"), Str("http"), Str("imap"), Str("https"),
   Str("shttp"), Str("rtsp"), Str("rtsps"), Str("rtspu"), Str("sip"), Str("sips"),
   Str("mms"), Str("sftp"), Str("tel")}

\* url.lstrip(_WHATWG_C0_CONTROL_OR_SPACE)
LStripC0(s) ==
  IF \A i \in 1..Len(s) : s[i] <= 32 THEN <<>>
  ELSE SubSeq(s, CHOOSE i \in 1..Len(s) : s[i] > 32 /\ \A j \in 1..(i - 1) : s[j] <= 32, Len(s))

\* url.replace(b, "") for b in "\t\r\n"
NotUnsafe(cp) == cp \notin {9, 10, 13}
RemoveUnsafe(s) == SelectSeq(s, NotUnsafe)

Has(s, ch) == \E i \in 1..Len(s) : s[i] = ch
Before(s, pos) == SubSeq(s, 1, pos - 1)
After(s, pos) == SubSeq(s, pos + 1, Len(s))

\* the scheme of urlsplit: <<scheme, rest>>
SplitScheme(url) ==
  LET colon == Find(url, 58, 1)
  IN IF colon > 1 /\ (IsUpper(url[1]) \/ IsLower(url[1]))
        /\ \A i \in 1..(colon - 1) : url[i] \in SchemeChars
     THEN <<Lower(Before(url, colon)), After(url, colon)>>
     ELSE <<<<>>, url>>

\* _splitnetloc(url, 2): <<netloc, rest>>, the netloc ending at the first of '/', '?', '#'
SplitNetloc(url) ==
  LET ends == {i \in 3..Len(url) : url[i] \in {47, 63, 35}}
      delim == IF ends = {} THEN Len(url) + 1 ELSE CHOOSE i \in ends : \A j \in ends : i <= j
  IN <<SubSeq(url, 3, delim - 1), SubSeq(url, delim, Len(url))>>

\* _splitparams(url): <<url, params>>
SplitParams(url) ==
  LET semi == IF Has(url, 47) THEN Find(url, 59, RFind(url, 47)) ELSE Find(url, 59, 1)
  IN IF semi = 0 THEN <<url, <<>>>> ELSE <<Before(url, semi), After(url, semi)>>

\* the query and the fragment split off the rest after the netloc
SplitQuery(scheme, netloc, raised, rest, hash) ==
  LET url1 == IF hash > 0 THEN Before(rest, hash) ELSE rest
      quest == Find(url1, 63, 1)
  IN [raised |-> raised, scheme |-> scheme, netloc |-> netloc,
      path |-> IF quest > 0 THEN Before(url1, quest) ELSE url1,
      query |-> IF quest > 0 THEN After(url1, quest) ELSE <<>>,
      fragment |-> IF hash > 0 THEN After(rest, hash) ELSE <<>>]

\* net is <<netloc, rest>>; a netloc with '[' but no ']', or ']' but no '[', raises
\* ValueError("Invalid IPv6 URL")
SplitRest(scheme, hasNetloc, net) ==
  SplitQuery(scheme, net[1], hasNetloc /\ (Has(net[1], 91) # Has(net[1], 93)), net[2],
             Find(net[2], 35, 1))

HasNetloc(rest) == Len(rest) >= 2 /\ SubSeq(rest, 1, 2) = <<47, 47>>
\* sch is <<scheme, rest>>
SplitAfterScheme(sch) ==
  SplitRest(sch[1], HasNetloc(sch[2]), IF HasNetloc(sch[2]) THEN SplitNetloc(sch[2]) ELSE <<<<>>, sch[2]>>)

urlsplit(fullUrl) == SplitAfterScheme(SplitScheme(RemoveUnsafe(LStripC0(fullUrl))))

\* sp is the result of urlsplit, pp is <<path, params>>
ParseResult(sp, pp) ==
  [raised |-> sp.raised, scheme |-> sp.scheme, netloc |-> sp.netloc, path |-> pp[1],
   params |-> pp[2], query |-> sp.query, fragment |-> sp.fragment]
WithParams(sp) ==
  ParseResult(sp, IF sp.scheme \in UsesParams /\ Has(sp.path, 59)
                  THEN SplitParams(sp.path) ELSE <<sp.path, <<>>>>)
urlparse(fullUrl) == WithParams(urlsplit(fullUrl))

(***************************************************************************)
(* sign_get, as a function of its arguments: what a call returns, or the   *)
(* exception it ends with.                                                 *)
(***************************************************************************)
GET == Str("GET")
LF == <<10>>

StringToSign(host, path, cq) == GET \o LF \o host \o LF \o path \o LF \o cq

SignedUrlSignatureFirst(host, path, cq, signatureEnc) ==
  Str("https://") \o host \o path \o Str("?Signature=") \o signatureEnc \o
  (IF Len(cq) = 0 THEN <<>> ELSE Str("&") \o cq)
SignedUrl(host, path, cq, signatureEnc) ==
  Str("https://") \o host \o path \o Str("?") \o cq \o Str("&Signature=") \o signatureEnc

\* the (string_to_sign, signed_url) pair returned, or the exception raised
Returned(stringToSign, signedUrl) ==
  [exc |-> None, string_to_sign |-> stringToSign, signed_url |-> signedUrl]
Raised(exception) == [exc |-> exception, string_to_sign |-> <<>>, signed_url |-> <<>>]

\* the frame of a call: the parameters and the locals, <<>> while unassigned, and
\* the exception that ended the call
NoFrame ==
  [full_url |-> <<>>, params |-> <<>>, secret_key |-> <<>>, host |-> <<>>, path |-> <<>>,
   cq |-> <<>>, string_to_sign |-> <<>>, digest |-> <<>>, signature_enc |-> <<>>, exc |-> None]
Called(fullUrl, params, secretKey) ==
  [NoFrame EXCEPT !.full_url = fullUrl, !.params = params, !.secret_key = secretKey]

\* parsed = urlparse(full_url); host = parsed.netloc; path = parsed.path
HostAndPath(f, parsed) ==
  IF parsed.raised THEN [f EXCEPT !.exc = "ValueError"]
  ELSE [f EXCEPT !.host = parsed.netloc, !.path = parsed.path]
Parsed(f) == HostAndPath(f, urlparse(f.full_url))

\* cq = canonical_query(params); string_to_sign = f"GET\\n{host}\\n{path}\\n{cq}"
Joined(f) == [f EXCEPT !.string_to_sign = StringToSign(f.host, f.path, f.cq)]
Canonical(f) == Joined([f EXCEPT !.cq = canonical_query(f.params)])

\* digest = hmac.new(secret_key.encode("utf-8"), string_to_sign.encode("utf-8"),
\*                   hashlib.sha256).digest()
Digested(f) ==
  [f EXCEPT !.digest = HmacSha256(Encode(f.secret_key), Encode(f.string_to_sign))]

\* signature_b64 = base64.b64encode(digest).decode(); signature_enc = enc(signature_b64)
Encoded(f) == [f EXCEPT !.signature_enc = enc(B64Encode(f.digest))]

\* signed_url = f"https://{host}{path}?{cq}&Signature={signature_enc}" and the return
Result(f) ==
  IF f.exc # None THEN Raised(f.exc)
  ELSE Returned(f.string_to_sign, SignedUrl(f.host, f.path, f.cq, f.signature_enc))

\* the statements after a parse that has not raised
Signed(f) == IF f.exc # None THEN f ELSE Encoded(Digested(Canonical(f)))
\* one whole call of sign_get
sign_get(fullUrl, params, secretKey) ==
  Result(Signed(Parsed(Called(fullUrl, params, secretKey))))

(***************************************************************************)
(* Positions and frames.                                                   *)
(***************************************************************************)
\* nothing called yet
NoPure == [fn |-> "none", arg |-> <<>>, result |-> <<>>]

\* the threads that call sign_get
Callers == {1, 2}
\* the frame that holds the locals of caller c's call: a call's parameters and
\* locals are its own, and no statement of sign_get reads or writes a global
SharedFrame(c) == 1
FrameOf(c) == c

NoInput == [full_url |-> <<>>, params |-> <<>>, secret_key |-> <<>>]
\* overlap is history: TRUE once the call has taken a step while another call was
\* in progress
NoCall == [pc |-> "idle", passed |-> NoInput, result |-> Raised(None), overlap |-> FALSE]
\* sign_get is in progress at these positions
InCall == {"parse", "canon", "digest", "build"}
\* inputs names, for each caller, the set of inputs it calls sign_get with
IdleSigner(inputs) ==
  [call |-> [c \in Callers |-> NoCall], frame |-> [c \in Callers |-> NoFrame], inputs |-> inputs]

(***************************************************************************)
(* The inputs of the bounded runs.                                         *)
(***************************************************************************)
MaxLen == 2
MaxParams == 3
SECRET_KEY == Str("yoursecretkey")
API_KEY == Str("anonymous")

\* A z 0 - _ . ~ space / + % e-acute, the euro sign and an emoji
EncAlphabet == {65, 122, 48, 45, 95, 46, 126, 32, 47, 43, 37, 233, 8364, 128512}
Strings(alphabet, n) == UNION {[1..k -> alphabet] : k \in 0..n}
EncInputs == Strings(EncAlphabet, MaxLen) \cup {Str("a b/c"), Str("2024-01-01T00:00:00Z")}

CanonKeys == {Str("a"), Str("b"), Str("B"), Str("aa"), <<233>>}
CanonValues == {Str("1"), Str("2")}
\* a dict is the sequence of its items in insertion order; its keys are unique
UniqueKeys(d) == \A i, j \in 1..Len(d) : i # j => d[i][1] # d[j][1]
Dicts(keys, values, n) == UNION {{d \in [1..k -> keys \X values] : UniqueKeys(d)} : k \in 0..n}
CanonInputs ==
  Dicts(CanonKeys, CanonValues, MaxParams)
  \cup {<< <<Str("q"), Str("a b/c")>>, <<Str("a b"), Str("x")>> >>,
        << <<Str("TimeStamp"), Str("2024-01-01T00:00:00Z")>>, <<Str("apiKey"), Str("anonymous")>>,
           <<Str("GlobalIdentifier"), Str("0-1")>> >>}

SignUrls ==
  {Str("https://example.com/path"), Str("example.com/path"), Str("/path"), Str("https:///path"), <<>>,
   Str("https://user:pw@example.com/path"), Str("https://example.com/path?x=1#frag"),
   Str("https://example.com:8443/a/b;v=1"), Str("https://[::1/path"), Str("HTTP://Example.com")}
SignParams ==
  {<<>>,
   << <<Str("b"), Str("2")>>, <<Str("a"), Str("1")>> >>,
   << <<Str("Signature"), Str("x")>>, <<Str("a"), Str("1")>> >>,
   << <<Str("q"), Str("a b/c")>> >>}
SignInputs ==
  {[full_url |-> u, params |-> p, secret_key |-> SECRET_KEY] : u \in SignUrls, p \in SignParams}
  \cup {[full_url |-> Str("https://example.com/path"), params |-> <<>>, secret_key |-> Str("other")]}
ConcInputs ==
  {[full_url |-> Str("https://example.com/path"),
    params |-> << <<Str("b"), Str("2")>>, <<Str("a"), Str("1")>> >>, secret_key |-> SECRET_KEY],
   [full_url |-> Str("https://user:pw@example.org/other?x=1"), params |-> <<>>,
    secret_key |-> SECRET_KEY]}

\* the inputs of a caller, by name
InputsOf(name) ==
  CASE name = "every" -> SignInputs
    [] name = "two" -> ConcInputs
    [] OTHER -> {}

(***************************************************************************)
(* enc and canonical_query called on their own.                            *)
(***************************************************************************)
EncCall ==
  /\ pure.fn = "none"
  /\ \E v \in EncInputs : pure' = [fn |-> "enc", arg |-> v, result |-> enc(v)]
  /\ UNCHANGED <<signer, fetcher, prog>>

CanonCall ==
  /\ pure.fn = "none"
  /\ \E params \in CanonInputs :
       pure' = [fn |-> "canonical_query", arg |-> params, result |-> canonical_query(params)]
  /\ UNCHANGED <<signer, fetcher, prog>>

(***************************************************************************)
(* sign_get, statement by statement, called by several threads.            *)
(***************************************************************************)
\* the call's record after a step to position pc
Stepped(c, pc) ==
  [signer.call[c] EXCEPT
     !.pc = pc,
     !.overlap = @ \/ \E d \in Callers \ {c} : signer.call[d].pc \in InCall]

\* the call sign_get(full_url, params, secret_key)
SignCall(c) ==
  /\ signer.call[c].pc \notin InCall
  /\ \E inp \in InputsOf(signer.inputs[c]) :
       signer' = [signer EXCEPT
                    !.call[c] = [NoCall EXCEPT !.pc = "parse", !.passed = inp],
                    !.frame[FrameOf(c)] = Called(inp.full_url, inp.params, inp.secret_key)]
  /\ UNCHANGED <<pure, fetcher, prog>>

\* the first statements, to path = parsed.path; what urlparse raises ends the call
SignParse(c) ==
  /\ signer.call[c].pc = "parse"
  /\ LET f == Parsed(signer.frame[FrameOf(c)])
     IN signer' = [signer EXCEPT
                     !.call[c] = IF f.exc # None
                                 THEN [Stepped(c, "raised") EXCEPT !.result = Result(f)]
                                 ELSE Stepped(c, "canon"),
                     !.frame[FrameOf(c)] = f]
  /\ UNCHANGED <<pure, fetcher, prog>>

\* to string_to_sign = ...
SignCanon(c) ==
  /\ signer.call[c].pc = "canon"
  /\ signer' = [signer EXCEPT !.call[c] = Stepped(c, "digest"),
                              !.frame[FrameOf(c)] = Canonical(@)]
  /\ UNCHANGED <<pure, fetcher, prog>>

\* digest = ...
SignDigest(c) ==
  /\ signer.call[c].pc = "digest"
  /\ signer' = [signer EXCEPT !.call[c] = Stepped(c, "build"),
                              !.frame[FrameOf(c)] = Digested(@)]
  /\ UNCHANGED <<pure, fetcher, prog>>

\* the last statements and the return
SignReturn(c) ==
  /\ signer.call[c].pc = "build"
  /\ LET f == Encoded(signer.frame[FrameOf(c)])
     IN signer' = [signer EXCEPT
                     !.call[c] = [Stepped(c, "done") EXCEPT !.result = Result(f)],
                     !.frame[FrameOf(c)] = f]
  /\ UNCHANGED <<pure, fetcher, prog>>

(***************************************************************************)
(* The catalog document.  An element is its qualified tag, its text (None  *)
(* or a str) and its children, as xml.etree.ElementTree holds it.          *)
(***************************************************************************)
CORE_NS == "http://fcb2b.com/schemas/1.0/core"
\* the qualified name that "core:<local>" resolves to under NS
CoreTag(local) == "{" \o CORE_NS \o "}" \o local

Element(tag, text, children) == [tag |-> tag, text |-> text, children |-> children]
Leaf(tag, text) == Element(tag, text, <<>>)

\* Element.findall(tag): the children with that tag, in document order
findall(el, tag) == LET Tagged(ch) == ch.tag = tag IN SelectSeq(el.children, Tagged)
\* Element.find(tag): the first such child, or None
find(el, tag) == LET all == findall(el, tag) IN IF Len(all) = 0 THEN <<>> ELSE <<all[1]>>
\* Element.findtext(tag, default): default if there is no such child, "" if its text is None
findtext(el, tag, default) ==
  LET found == find(el, tag)
  IN IF Len(found) = 0 THEN default
     ELSE IF Len(found[1].text) = 0 THEN <<>> ELSE found[1].text[1]

\* the dataclass ServiceProfile
ServiceProfile(name, description, anonymous_access, https_url, version, date) ==
  [name |-> name, description |-> description, anonymous_access |-> anonymous_access,
   https_url |-> https_url, version |-> version, date |-> date]

(***************************************************************************)
(* The documents and answers of the bounded runs.                          *)
(***************************************************************************)
MaxEntries == 2

NameEl(text) == Leaf(CoreTag("Name"), text)
DescEl(text) == Leaf(CoreTag("Description"), text)
AnonEl(text) == Leaf(CoreTag("AnonymousAccessPermitted"), text)
VersionEl(paths) ==
  Element("Version", <<>>,
          paths \o <<Leaf("VersionNumber", <<Str("1.0")>>), Leaf("Date", <<Str("2024-01-01")>>)>>)
PathEl(url) == Leaf("HTTPSRequestPath", <<url>>)
Entry(children) == Element("ServiceProfile", <<>>, children)

GoodName == NameEl(<<Str("StockCheck")>>)
GoodDesc == DescEl(<<Str(" Stock check ")>>)
GoodVersion == VersionEl(<<PathEl(Str("https://example.com/svc"))>>)
AnonTexts ==
  {<<Str("true")>>, <<Str("True")>>, <<Str("TRUE")>>, <<Str(" true ")>>, <<Str("false")>>,
   <<Str("yes")>>, <<Str(" ")>>, <<>>}
Entries ==
  {Entry(<<GoodName, GoodDesc, AnonEl(t), GoodVersion>>) : t \in AnonTexts}
  \cup {Entry(<<GoodDesc, AnonEl(<<Str("true")>>), GoodVersion>>),
        Entry(<<NameEl(<<>>), GoodDesc, AnonEl(<<Str("true")>>), GoodVersion>>),
        Entry(<<Leaf("Name", <<Str("StockCheck")>>), GoodDesc, AnonEl(<<Str("true")>>), GoodVersion>>),
        Entry(<<GoodName, AnonEl(<<Str("true")>>), GoodVersion>>),
        Entry(<<GoodName, DescEl(<<>>), AnonEl(<<Str("true")>>), GoodVersion>>),
        Entry(<<GoodName, GoodDesc, GoodVersion>>),
        Entry(<<GoodName, GoodDesc, AnonEl(<<Str("true")>>)>>),
        Entry(<<GoodName, GoodDesc, AnonEl(<<Str("false")>>), VersionEl(<<>>)>>),
        Element("Other", <<>>, <<GoodName, GoodDesc, AnonEl(<<Str("true")>>), GoodVersion>>)}
Documents == {Element("ServiceProfiles", <<>>, es) : es \in Strings(Entries, MaxEntries)}

\* what requests.get meets: a response with a status and a body, or no response
Response(status, wellformed, root) ==
  [kind |-> "response", status |-> status, wellformed |-> wellformed, root |-> root]
NoResponse(exception) == [kind |-> exception, status |-> 0, wellformed |-> FALSE, root |-> Element("", <<>>, <<>>)]
SampleDocument ==
  Element("ServiceProfiles", <<>>, <<Entry(<<GoodName, GoodDesc, AnonEl(<<Str("true")>>), GoodVersion>>)>>)
Answers ==
  {Response(200, TRUE, d) : d \in Documents}
  \cup {Response(s, FALSE, Element("", <<>>, <<>>)) : s \in {200, 204, 300, 404, 500}}
  \cup {Response(s, TRUE, SampleDocument) : s \in {201, 300, 304, 404, 503}}
  \cup {NoResponse("ConnectionError"), NoResponse("Timeout")}

\* the catalogs of the runs of the whole program
NamedEntry(name, paths) ==
  Entry(<<NameEl(<<name>>), GoodDesc, AnonEl(<<Str("true")>>), VersionEl(paths)>>)
MainAnswers ==
  {Response(200, TRUE,
            Element("ServiceProfiles", <<>>,
                    <<NamedEntry(Str("StockCheck"), <<PathEl(Str("https://example.com/svc"))>>),
                      NamedEntry(Str("Ping"), <<>>),
                      NamedEntry(Str("RelatedItems"), <<PathEl(Str("https://[::1/svc"))>>)>>)),
   Response(200, TRUE,
            Element("ServiceProfiles", <<>>,
                    <<NamedEntry(Str("Orders"), <<PathEl(Str(" https://example.com/orders?v=1 "))>>)>>)),
   Response(200, TRUE, Element("ServiceProfiles", <<>>, <<>>)),
   Response(404, FALSE, Element("", <<>>, <<>>)),
   NoResponse("Timeout")}

\* the answers of a server, by name
AnswersOf(name) ==
  CASE name = "every" -> Answers
    [] name = "catalogs" -> MainAnswers
    [] OTHER -> {}

Uuids == {Str("1b4e28ba-2fa1-41d2-883f-0016d3cca427"), Str("6fa459ea-ee8a-4ca4-894e-db77e160355e")}
Timestamps == {Str("2024-01-01T00:00:00Z"), Str("2024-12-31T23:59:59Z")}
\* what the user types for the item number, stripped
Skus == {<<>>, Str("AB 12/3")}
\* the status of the response to the signed request, or the exception of requests.get
Outcomes == {"200", "404", "500", "Timeout", "ConnectionError"}

(***************************************************************************)
(* fetch_service_profiles, statement by statement.                         *)
(***************************************************************************)
\* server names the answers the server may give
IdleFetcher(server) ==
  [server |-> server, pc |-> "idle", resp |-> <<>>, found |-> <<>>, i |-> 1,
   profiles |-> <<>>, exc |-> None]

FetchRaise(exception) == [fetcher EXCEPT !.pc = "raised", !.exc = exception]

\* resp = requests.get(SERVICES_URL, timeout=20)
FetchGet ==
  /\ fetcher.pc = "get"
  /\ \E answer \in AnswersOf(fetcher.server) :
       fetcher' = IF answer.kind = "response"
                  THEN [fetcher EXCEPT !.pc = "status", !.resp = <<answer>>]
                  ELSE FetchRaise(answer.kind)
  /\ UNCHANGED <<pure, signer, prog>>

\* resp.raise_for_status(): HTTPError for a status from 400 to 599
FetchRaiseForStatus ==
  /\ fetcher.pc = "status"
  /\ fetcher' = IF 400 <= fetcher.resp[1].status /\ fetcher.resp[1].status < 600
                THEN FetchRaise("HTTPError")
                ELSE [fetcher EXCEPT !.pc = "parse"]
  /\ UNCHANGED <<pure, signer, prog>>

\* root = ET.fromstring(xml_response); profiles = []; the loop over
\* root.findall("ServiceProfile") starts
FetchParse ==
  /\ fetcher.pc = "parse"
  /\ fetcher' = IF fetcher.resp[1].wellformed
                THEN [fetcher EXCEPT !.pc = "loop", !.i = 1, !.profiles = <<>>,
                                     !.found = findall(fetcher.resp[1].root, "ServiceProfile")]
                ELSE FetchRaise("ParseError")
  /\ UNCHANGED <<pure, signer, prog>>

\* one iteration of the loop; text is None of an element without text, and
\* None.strip() raises AttributeError
FetchEntry ==
  /\ fetcher.pc = "loop"
  /\ fetcher.i <= Len(fetcher.found)
  /\ LET sp == fetcher.found[fetcher.i]
         name_el == find(sp, CoreTag("Name"))
         desc_el == find(sp, CoreTag("Description"))
         anon_el == find(sp, CoreTag("AnonymousAccessPermitted"))
         version_el == find(sp, "Version")
     IN fetcher' =
          IF Len(name_el) = 0 \/ Len(desc_el) = 0 \/ Len(anon_el) = 0 \/ Len(version_el) = 0
          THEN [fetcher EXCEPT !.i = @ + 1]
          ELSE IF Len(name_el[1].text) = 0 \/ Len(desc_el[1].text) = 0 \/ Len(anon_el[1].text) = 0
          THEN FetchRaise("AttributeError")
          ELSE [fetcher EXCEPT
                  !.i = @ + 1,
                  !.profiles =
                    Append(@, ServiceProfile(
                                Strip(name_el[1].text[1]),
                                Strip(desc_el[1].text[1]),
                                Lower(Strip(anon_el[1].text[1])) = Str("true"),
                                Strip(findtext(version_el[1], "HTTPSRequestPath", <<>>)),
                                Strip(findtext(version_el[1], "VersionNumber", <<>>)),
                                Strip(findtext(version_el[1], "Date", <<>>))))]
  /\ UNCHANGED <<pure, signer, prog>>

\* return profiles
FetchReturn ==
  /\ fetcher.pc = "loop"
  /\ fetcher.i > Len(fetcher.found)
  /\ fetcher' = [fetcher EXCEPT !.pc = "done"]
  /\ UNCHANGED <<pure, signer, prog>>

(***************************************************************************)
(* main, build_params_for_service and call_service.                        *)
(***************************************************************************)
\* the locals of one turn of the loop are dead when the next turn starts: the
\* model clears them there
Menu(profiles) ==
  [pc |-> "menu", profiles |-> profiles, service |-> <<>>, params |-> <<>>, signed_url |-> <<>>,
   signs |-> 0, requests |-> 0, outcome |-> None, exit |-> 0]
StartProg == [Menu(<<>>) EXCEPT !.pc = "start"]
Exited(code) == [prog EXCEPT !.pc = "exited", !.exit = code]

\* profiles = fetch_service_profiles(): the call
MainStart ==
  /\ prog.pc = "start"
  /\ prog' = [prog EXCEPT !.pc = "fetching"]
  /\ fetcher' = [fetcher EXCEPT !.pc = "get"]
  /\ UNCHANGED <<pure, signer>>

\* the call has returned or raised: except Exception -> sys.exit(1); no profiles ->
\* sys.exit(1)
MainFetched ==
  /\ prog.pc = "fetching"
  /\ fetcher.pc \in {"done", "raised"}
  /\ prog' = IF fetcher.pc = "raised" \/ Len(fetcher.profiles) = 0
             THEN Exited(1)
             ELSE Menu(fetcher.profiles)
  /\ UNCHANGED <<pure, signer, fetcher>>

\* service = choose_service(profiles): 0 is the user's "q"; an answer that is no
\* number of the list is asked again
MainChoose ==
  /\ prog.pc = "menu"
  /\ \E choice \in 0..Len(prog.profiles) :
       prog' = IF choice = 0 THEN Exited(0)
               ELSE [prog EXCEPT !.pc = "build", !.service = <<prog.profiles[choice]>>]
  /\ UNCHANGED <<pure, signer, fetcher>>

SkuServices == {Str("InventoryInquiry"), Str("RelatedItems"), Str("StockCheck")}
\* the dict build_params_for_service returns, in insertion order
build_params_for_service(service, global_id, timestamp, sku) ==
  << <<Str("GlobalIdentifier"), global_id>>, <<Str("TimeStamp"), timestamp>>,
     <<Str("apiKey"), API_KEY>> >>
  \o (IF service.name \in SkuServices \/ Len(sku) > 0
      THEN << <<Str("SupplierItemSKU"), sku>> >> ELSE <<>>)

\* params = build_params_for_service(service), then the call of call_service
MainBuildParams ==
  /\ prog.pc = "build"
  /\ \E global_id \in Uuids, timestamp \in Timestamps, sku \in Skus :
       prog' = [prog EXCEPT
                  !.pc = "call",
                  !.params = build_params_for_service(prog.service[1], global_id, timestamp, sku)]
  /\ UNCHANGED <<pure, signer, fetcher>>

\* if not service.https_url: return
CallCheckUrl ==
  /\ prog.pc = "call"
  /\ prog' = [prog EXCEPT !.pc = IF Len(prog.service[1].https_url) = 0 THEN "again" ELSE "sign"]
  /\ UNCHANGED <<pure, signer, fetcher>>

\* string_to_sign, signed_url = sign_get(service.https_url, params, SECRET_KEY): the
\* call stands before the try, so what it raises leaves call_service and main
CallSign ==
  /\ prog.pc = "sign"
  /\ LET r == sign_get(prog.service[1].https_url, prog.params, SECRET_KEY)
     IN prog' = IF r.exc # None
                THEN [prog EXCEPT !.pc = "crashed", !.exit = 1]
                ELSE [prog EXCEPT !.pc = "request", !.signs = @ + 1, !.signed_url = r.signed_url]
  /\ UNCHANGED <<pure, signer, fetcher>>

\* try: resp = requests.get(signed_url, ...) ... except Exception: print
CallRequest ==
  /\ prog.pc = "request"
  /\ \E outcome \in Outcomes :
       prog' = [prog EXCEPT !.pc = "again", !.requests = @ + 1, !.outcome = outcome]
  /\ UNCHANGED <<pure, signer, fetcher>>

\* again = input(...): another turn or the end
MainAgain ==
  /\ prog.pc = "again"
  /\ \E again \in BOOLEAN : prog' = IF again THEN Menu(prog.profiles) ELSE Exited(0)
  /\ UNCHANGED <<pure, signer, fetcher>>

(***************************************************************************)
(* The specifications.                                                     *)
(***************************************************************************)
\* enc and canonical_query on their own
InitEncode ==
  /\ pure = NoPure
  /\ signer = IdleSigner([c \in Callers |-> "none"])
  /\ fetcher = IdleFetcher("none")
  /\ prog = [StartProg EXCEPT !.pc = "idle"]
NextEncode == EncCall \/ CanonCall
SpecEncode == InitEncode /\ [][NextEncode]_vars

NextSign ==
  \E c \in Callers : SignCall(c) \/ SignParse(c) \/ SignCanon(c) \/ SignDigest(c) \/ SignReturn(c)

\* one thread calls sign_get, with every input
InitSign ==
  /\ pure = NoPure
  /\ signer = IdleSigner([c \in Callers |-> IF c = 1 THEN "every" ELSE "none"])
  /\ fetcher = IdleFetcher("none")
  /\ prog = [StartProg EXCEPT !.pc = "idle"]
SpecSign == InitSign /\ [][NextSign]_vars

\* every thread calls sign_get, the calls interleaved step by step
InitConc ==
  /\ pure = NoPure
  /\ signer = IdleSigner([c \in Callers |-> "two"])
  /\ fetcher = IdleFetcher("none")
  /\ prog = [StartProg EXCEPT !.pc = "idle"]
SpecConc == InitConc /\ [][NextSign]_vars

NextFetch == MainStart \/ FetchGet \/ FetchRaiseForStatus \/ FetchParse \/ FetchEntry \/ FetchReturn \/ MainFetched

\* the start of main against every answer of the server
InitFetch ==
  /\ pure = NoPure
  /\ signer = IdleSigner([c \in Callers |-> "none"])
  /\ fetcher = IdleFetcher("every")
  /\ prog = StartProg
SpecFetch == InitFetch /\ [][NextFetch]_vars

\* the whole program
Init ==
  /\ pure = NoPure
  /\ signer = IdleSigner([c \in Callers |-> "none"])
  /\ fetcher = IdleFetcher("catalogs")
  /\ prog = StartProg
Next ==
  \/ NextFetch
  \/ MainChoose \/ MainBuildParams \/ CallCheckUrl \/ CallSign \/ CallRequest \/ MainAgain
Spec == Init /\ [][Next]_vars

(***************************************************************************)
(* The properties.  What a property asks is written from its own words:    *)
(* the escaping character by character, the order of the pairs by the rank *)
(* of the key's bytes.                                                     *)
(***************************************************************************)
Unreserved == (65..90) \cup (97..122) \cup (48..57) \cup {45, 95, 46, 126}
UpperHex == Str("0123456789ABCDEF")
\* '%' and the two upper-case hex digits of byte b
Escape(b) == <<37, UpperHex[(b \div 16) + 1], UpperHex[(b % 16) + 1]>>
EscapedChar(cp) ==
  IF cp \in Unreserved THEN <<cp>> ELSE Concat([i \in 1..Len(Utf8(cp)) |-> Escape(Utf8(cp)[i])])
EscapedStr(s) == Concat([i \in 1..Len(s) |-> EscapedChar(s[i])])
PairText(kv) == EscapedStr(kv[1]) \o <<61>> \o EscapedStr(kv[2])
\* piece stands in s between two '&', or between an end of s and a '&'
IsPiece(s, piece) ==
  \E pos \in 1..(Len(s) - Len(piece) + 1) :
    /\ SubSeq(s, pos, pos + Len(piece) - 1) = piece
    /\ (pos = 1 \/ s[pos - 1] = 38)
    /\ (pos + Len(piece) - 1 = Len(s) \/ s[pos + Len(piece)] = 38)

\* C5: enc leaves the ASCII letters, the digits and - _ . ~ as they are and writes
\* every other byte of the UTF-8 encoding as '%' and two upper-case hex digits, so
\* a space becomes %20 and '/' becomes %2F; canonical_query escapes the keys and
\* the values this way.
C5_EncEscapes ==
  /\ pure.fn = "enc" =>
       /\ pure.result = EscapedStr(pure.arg)
       /\ \A i \in 1..Len(pure.result) : pure.result[i] \in Unreserved \cup {37}
       /\ (pure.arg = Str("a b/c") => pure.result = Str("a%20b%2Fc"))
       /\ (pure.arg = <<32>> => pure.result = Str("%20"))
       /\ (pure.arg = <<47>> => pure.result = Str("%2F"))
       /\ (pure.arg = <<233>> => pure.result = Str("%C3%A9"))
  /\ pure.fn = "canonical_query" =>
       /\ \A i \in 1..Len(pure.result) : pure.result[i] \in Unreserved \cup {37, 61, 38}
       /\ \A i \in 1..Len(pure.arg) : IsPiece(pure.result, PairText(pure.arg[i]))

\* enc has escaped a space and a slash
C5_Witness ==
  pure.fn = "enc" /\ pure.arg = Str("a b/c") /\ pure.result = Str("a%20b%2Fc")

\* b1 < b2 of two byte strings: the first differing byte decides, a proper prefix
\* is less
BytesLess(b1, b2) ==
  \E i \in 1..Len(b2) :
    /\ \A j \in 1..(i - 1) : j <= Len(b1) /\ b1[j] = b2[j]
    /\ Len(b1) >= i - 1
    /\ (Len(b1) = i - 1 \/ b1[i] < b2[i])
\* the place of item i among the items of a dict when ordered by the keys' bytes
Rank(d, i) == 1 + Cardinality({j \in 1..Len(d) : BytesLess(Encode(d[j][1]), Encode(d[i][1]))})
InKeyOrder(d) == [r \in 1..Len(d) |-> d[CHOOSE i \in 1..Len(d) : Rank(d, i) = r]]
ExpectedQuery(d) == Join(<<38>>, [r \in 1..Len(d) |-> PairText(InKeyOrder(d)[r])])
\* the insertion orders of a dict of n items
Orders(n) == {p \in [1..n -> 1..n] : \A i, j \in 1..n : i # j => p[i] # p[j]}
Reordered(d, p) == [i \in 1..Len(d) |-> d[p[i]]]

\* C4: canonical_query joins the pairs encodedKey=encodedValue by '&', without a
\* leading or trailing '&', in strictly increasing byte order of the unencoded
\* keys (upper case before lower case), and returns the same for every insertion
\* order of the mapping.
C4_CanonicalQuerySorted ==
  pure.fn = "canonical_query" =>
    /\ pure.result = ExpectedQuery(pure.arg)
    /\ Len(pure.result) > 0 => pure.result[1] # 38 /\ pure.result[Len(pure.result)] # 38
    /\ \A p \in Orders(Len(pure.arg)) : canonical_query(Reordered(pure.arg, p)) = pure.result
    /\ (pure.arg = << <<Str("b"), Str("2")>>, <<Str("a"), Str("1")>> >>
          => pure.result = Str("a=1&b=2"))
    /\ (pure.arg = << <<Str("a"), Str("1")>>, <<Str("b"), Str("2")>> >>
          => pure.result = Str("a=1&b=2"))

\* canonical_query has put an upper-case key, inserted last, before a lower-case key
C4_Witness ==
  /\ pure.fn = "canonical_query"
  /\ pure.arg = << <<Str("a"), Str("1")>>, <<Str("B"), Str("2")>> >>
  /\ pure.result = Str("B=2&a=1")

\* the URL has no scheme or no host
LacksSchemeOrHost(url) == Len(urlparse(url).scheme) = 0 \/ Len(urlparse(url).netloc) = 0

\* C1: for a URL without a scheme or without a host, sign_get ends in an error: it
\* never reaches the HMAC computation and returns no pair.
C1_InvalidUrlRejected ==
  \A c \in Callers :
    (signer.call[c].pc # "idle" /\ LacksSchemeOrHost(signer.call[c].passed.full_url))
      => signer.call[c].pc \notin {"build", "done"}

\* the authority without userinfo: what follows the last '@'
WithoutUserinfo(netloc) == After(netloc, RFind(netloc, 64))

\* C2: the string-to-sign is "GET", the host without userinfo, the path alone and
\* the canonical query string, joined by single newlines, with no trailing newline;
\* a query string or fragment of the URL adds nothing.
C2_StringToSign ==
  \A c \in Callers :
    signer.call[c].pc = "done" =>
      signer.call[c].result.string_to_sign =
        Join(LF, <<GET, WithoutUserinfo(urlparse(signer.call[c].passed.full_url).netloc),
                   urlparse(signer.call[c].passed.full_url).path,
                   ExpectedQuery(signer.call[c].passed.params)>>)

Count(s, ch) == Cardinality({i \in 1..Len(s) : s[i] = ch})
EndsWith(s, tail) == Len(s) >= Len(tail) /\ SubSeq(s, Len(s) - Len(tail) + 1, Len(s)) = tail
\* only unreserved characters and '%' with two upper-case hex digits
WellEscaped(s) ==
  \A i \in 1..Len(s) :
    \/ s[i] \in Unreserved
    \/ s[i] = 37 /\ i + 2 <= Len(s) /\ \E b \in 0..255 : SubSeq(s, i, i + 2) = Escape(b)
\* what the signed URL must be of a call's arguments, before the signature itself
UrlPrefix(inp) ==
  Str("https://") \o urlparse(inp.full_url).netloc \o urlparse(inp.full_url).path \o Str("?")
  \o ExpectedQuery(inp.params) \o Str("&Signature=")
SignatureOf(url, inp) == SubSeq(url, Len(UrlPrefix(inp)) + 1, Len(url))

\* C3: the signed URL is "https://" host path "?" canonical query "&Signature="
\* encoded signature; the canonical query that was signed holds the caller's
\* parameters and no pair of the signer's, the signer's Signature pair is the last
\* pair, and the encoded signature has only unreserved characters and %XX escapes,
\* with every '+', '/' and '=' of the base64 text escaped.
C3_SignedUrl ==
  \A c \in Callers :
    signer.call[c].pc = "done" =>
      LET inp == signer.call[c].passed
          r == signer.call[c].result
          sig == SignatureOf(r.signed_url, inp)
      IN /\ Len(r.signed_url) > Len(UrlPrefix(inp))
         /\ SubSeq(r.signed_url, 1, Len(UrlPrefix(inp))) = UrlPrefix(inp)
         /\ EndsWith(r.string_to_sign, LF \o ExpectedQuery(inp.params))
         /\ Count(ExpectedQuery(inp.params), 38) = (IF Len(inp.params) = 0 THEN 0 ELSE Len(inp.params) - 1)
         /\ Count(sig, 38) = 0
         /\ WellEscaped(sig)
         /\ Count(sig, 43) = 0 /\ Count(sig, 47) = 0 /\ Count(sig, 61) = 0
         /\ sig = EscapedStr(B64Encode(signer.frame[c].digest))
         /\ EndsWith(sig, Str("%3D"))

\* a call with a parameter named Signature has returned its pair
C3_Witness ==
  /\ signer.call[1].pc = "done"
  /\ signer.call[1].passed.params = << <<Str("Signature"), Str("x")>>, <<Str("a"), Str("1")>> >>
  /\ signer.call[1].passed.full_url = Str("https://example.com/path?x=1#frag")
  /\ Len(signer.call[1].result.signed_url) > 0

\* what each input of the interleaved callers returns when called alone
SignTable == {<<inp, sign_get(inp.full_url, inp.params, inp.secret_key)>> : inp \in ConcInputs}
Alone(inp) == (CHOOSE e \in SignTable : e[1] = inp)[2]
Ended(c) == signer.call[c].pc \in {"done", "raised"}

\* C9: sign_get is deterministic and shares no state: a call returns what its
\* arguments alone determine, the same pair for the same arguments, also when the
\* calls of several callers with different arguments are interleaved step by step.
C9_SignGetDeterministic ==
  /\ \A c \in Callers : Ended(c) => signer.call[c].result = Alone(signer.call[c].passed)
  /\ \A c, d \in Callers :
       (Ended(c) /\ Ended(d) /\ signer.call[c].passed = signer.call[d].passed)
         => signer.call[c].result = signer.call[d].result

\* two calls with different arguments, each of which took steps while the other
\* was in progress, have both returned
C9_Witness ==
  /\ signer.call[1].pc = "done" /\ signer.call[2].pc = "done"
  /\ signer.call[1].overlap /\ signer.call[2].overlap
  /\ signer.call[1].passed # signer.call[2].passed
  /\ signer.call[1].result # signer.call[2].result

Present(sp, tag) == Len(find(sp, tag)) = 1
HasText(sp, tag) == Present(sp, tag) /\ Len(find(sp, tag)[1].text) = 1
TextOf(sp, tag) == find(sp, tag)[1].text[1]
AllPresent(sp) ==
  /\ Present(sp, CoreTag("Name")) /\ Present(sp, CoreTag("Description"))
  /\ Present(sp, CoreTag("AnonymousAccessPermitted")) /\ Present(sp, "Version")
\* Name, Description, AnonymousAccessPermitted and Version are present and non-null
WellFormedEntry(sp) ==
  /\ AllPresent(sp)
  /\ HasText(sp, CoreTag("Name")) /\ HasText(sp, CoreTag("Description"))
  /\ HasText(sp, CoreTag("AnonymousAccessPermitted"))
Kept(found) == SelectSeq(found, WellFormedEntry)

\* C6: of a well-formed document the parse loop returns, in document order, one
\* descriptor for each ServiceProfile entry whose four mandatory elements are
\* present and non-null and none for another entry; an entry that misses one or
\* carries one without text is skipped and the parse goes on.
C6_LenientParse ==
  /\ ~(fetcher.pc = "raised" /\ fetcher.exc = "AttributeError")
  /\ fetcher.pc \in {"loop", "done"} =>
       LET kept == Kept(SubSeq(fetcher.found, 1, fetcher.i - 1))
       IN /\ Len(fetcher.profiles) = Len(kept)
          /\ \A k \in 1..Len(kept) :
               /\ fetcher.profiles[k].name = Strip(TextOf(kept[k], CoreTag("Name")))
               /\ fetcher.profiles[k].description = Strip(TextOf(kept[k], CoreTag("Description")))

\* the flag the claim gives an AnonymousAccessPermitted element
AnonFlag(sp) ==
  /\ HasText(sp, CoreTag("AnonymousAccessPermitted"))
  /\ Lower(Strip(TextOf(sp, CoreTag("AnonymousAccessPermitted")))) = Str("true")

\* C7: of an entry with an AnonymousAccessPermitted element the flag is true iff
\* the element's text, trimmed and lower-cased, is "true"; with any other text, and
\* with empty or no text, the flag is false and the parse does not fail.
C7_AnonymousFlag ==
  /\ (fetcher.pc = "raised" /\ fetcher.exc = "AttributeError")
       => ~(/\ HasText(fetcher.found[fetcher.i], CoreTag("Name"))
            /\ HasText(fetcher.found[fetcher.i], CoreTag("Description"))
            /\ Present(fetcher.found[fetcher.i], CoreTag("AnonymousAccessPermitted")))
  /\ (fetcher.pc \in {"loop", "done"} /\ fetcher.i > 1 /\ AllPresent(fetcher.found[fetcher.i - 1]))
       => /\ Len(fetcher.profiles) > 0
          /\ fetcher.profiles[Len(fetcher.profiles)].anonymous_access
               = AnonFlag(fetcher.found[fetcher.i - 1])

FetchErrors == {"ConnectionError", "Timeout", "HTTPError"}
Answered == Len(fetcher.resp) = 1
Is2xx(status) == 200 <= status /\ status <= 299

\* C8: a fetch whose GET fails, by a network error, a timeout or a status that is
\* not 2xx, ends in a fetch error before any XML is parsed; a 2xx body that is not
\* well-formed ends in a parse error; neither returns a list to the caller.
C8_FetchFailures ==
  /\ (fetcher.pc = "raised" /\ ~Answered) => fetcher.exc \in FetchErrors
  /\ (Answered /\ ~Is2xx(fetcher.resp[1].status))
       => \/ fetcher.pc = "status"
          \/ fetcher.pc = "raised" /\ fetcher.exc \in FetchErrors
  /\ (Answered /\ Is2xx(fetcher.resp[1].status) /\ ~fetcher.resp[1].wellformed)
       => \/ fetcher.pc \in {"status", "parse"}
          \/ fetcher.pc = "raised" /\ fetcher.exc = "ParseError"
  /\ fetcher.pc = "raised" => prog.pc \in {"fetching", "exited"} /\ Len(prog.profiles) = 0

\* C10: call_service sends no request and signs nothing when the endpoint URL is
\* empty; otherwise it signs once and sends one GET, whatever the answer or the
\* failure; and it always returns to the main loop, never ending the program.
C10_CallServiceReturns ==
  /\ prog.pc # "crashed"
  /\ prog.pc \in {"call", "sign"} => prog.signs = 0 /\ prog.requests = 0
  /\ prog.pc = "request" => prog.signs = 1 /\ prog.requests = 0
  /\ prog.pc = "again" =>
       IF Len(prog.service[1].https_url) = 0
       THEN prog.signs = 0 /\ prog.requests = 0
       ELSE prog.signs = 1 /\ prog.requests = 1

============================================================================
